---- MODULE Spec2Model ----
(***************************************************************************)
(* Dane County Elections MCP server (src/src/index.ts).                    *)
(*                                                                         *)
(* The server registers two request handlers on a stdio transport:         *)
(* "list tools", which returns the TOOLS array, and "call tool", which     *)
(* runs handleToolCall -> makeApiRequest -> fetch and wraps the outcome in *)
(* a response envelope.  A call-tool handler is an async function: it runs *)
(* synchronously up to `await fetch(url)`, is resumed when the fetch       *)
(* settles, and (for an ok response) is suspended once more at             *)
(* `await response.json()`.  Each resumption is one action of the model.   *)
(*                                                                         *)
(* JavaScript strings are TLA+ strings; a template literal is \o.          *)
(* A JavaScript object is a function whose DOMAIN is its set of keys, so   *)
(* an absent property is a key that is not in the DOMAIN.                  *)
(***************************************************************************)
EXTENDS Integers, Sequences, FiniteSets, TLC

VARIABLES
    TOOLS,            \* the module-level tool registry array
    calls,            \* per call-tool request: the state of its async handler
    listed,           \* the last "list tools" response, <<>> before the first
    served,           \* TRUE once some call-tool response went back to the host
    listedAfterCall   \* whether `listed` was produced after such a response

vars == <<TOOLS, calls, listed, served, listedAfterCall>>

(***************************************************************************)
(* Bounds and input domains                                                *)
(***************************************************************************)
MaxCalls == 2

CallIds == 1..MaxCalls

ParamNames == {"electionid", "racenumber"}

\* Argument values the host may send: the empty string and two identifiers.
ArgValues == {"", "2024-general", "5"}

\* Every arguments object over the two parameter names (each key may be absent).
ArgObjects == UNION {[S -> ArgValues] : S \in SUBSET ParamNames}

RegisteredNames ==
    {"list_elections", "get_election", "get_last_published", "get_races",
     "get_election_results", "get_precinct_results"}

UnknownNames == {"delete_election", "list_election"}

ToolNames == RegisteredNames \cup UnknownNames

\* request.params of a call-tool request: `arguments` is optional.
CallToolParams ==
    {[name |-> n] : n \in ToolNames}
        \cup {[name |-> n, arguments |-> a] : n \in ToolNames, a \in ArgObjects}

\* The smaller request set used when calls overlap.
OverlapParams ==
    {[name |-> n] : n \in {"list_elections", "delete_election"}}
        \cup {[name |-> n, arguments |-> a] :
                n \in {"get_election_results", "get_precinct_results"},
                a \in {[k \in {"electionid"} |-> "2024-general"],
                       [k \in ParamNames |->
                            IF k = "electionid" THEN "2024-general" ELSE "5"]}}

(***************************************************************************)
(* Thrown values.  `isError` is the result of `error instanceof Error`.    *)
(***************************************************************************)
Error(message) == [isError |-> TRUE, message |-> message]

\* A thrown value that is not an Error instance (a plain object).
NonError(message) == [isError |-> FALSE, message |-> message]

(***************************************************************************)
(* JSON values returned by response.json()                                 *)
(***************************************************************************)
JNull == [t |-> "null"]
JNumber(n) == [t |-> "number", v |-> n]
JString(s) == [t |-> "string", v |-> s]
JArray(items) == [t |-> "array", items |-> items]
JObject(members) == [t |-> "object", members |-> members]

\* {"elections": []}
JsonElections == JObject(<< <<"elections", JArray(<<>>)>> >>)

\* [{"id": 1, "name": "Spring"}]
JsonList == JArray(<< JObject(<< <<"id", JNumber(1)>>, <<"name", JString("Spring")>> >>) >>)

JsonValues == {JsonElections, JsonList, JNull}

(***************************************************************************)
(* Tool registry (TOOLS)                                                   *)
(***************************************************************************)
EmptyObject == [k \in {} |-> ""]

ElectionIdProperty ==
    [type |-> "string", description |-> "The unique identifier for the election"]

ListElectionsTool ==
    [name |-> "list_elections",
     description |-> "Get a list of all available elections in Dane County",
     inputSchema |-> [type |-> "object", properties |-> EmptyObject]]

GetElectionTool ==
    [name |-> "get_election",
     description |-> "Get detailed information about a specific election by its ID",
     inputSchema |-> [type |-> "object",
                      properties |-> [k \in {"electionid"} |-> ElectionIdProperty],
                      required |-> <<"electionid">>]]

GetLastPublishedTool ==
    [name |-> "get_last_published",
     description |-> "Get the last published timestamp for a specific election",
     inputSchema |-> [type |-> "object",
                      properties |-> [k \in {"electionid"} |-> ElectionIdProperty],
                      required |-> <<"electionid">>]]

\* A descriptor that kept the name of the one it was copied from.
GetRacesToolMisnamed ==
    [name |-> "get_election",
     description |-> "Get all races for a specific election",
     inputSchema |-> [type |-> "object",
                      properties |-> [k \in {"electionid"} |-> ElectionIdProperty],
                      required |-> <<"electionid">>]]

GetRacesTool ==
    [name |-> "get_races",
     description |-> "Get all races for a specific election",
     inputSchema |-> [type |-> "object",
                      properties |-> [k \in {"electionid"} |-> ElectionIdProperty],
                      required |-> <<"electionid">>]]

GetElectionResultsTool ==
    [name |-> "get_election_results",
     description |-> "Get results for all races in an election, or for a specific race if racenumber is provided",
     inputSchema |-> [type |-> "object",
                      properties |->
                        [k \in ParamNames |->
                            IF k = "electionid" THEN ElectionIdProperty
                            ELSE [type |-> "string",
                                  description |-> "Optional: The race number to get specific race results"]],
                      required |-> <<"electionid">>]]

GetPrecinctResultsTool ==
    [name |-> "get_precinct_results",
     description |-> "Get precinct-level results for a specific race in an election",
     inputSchema |-> [type |-> "object",
                      properties |->
                        [k \in ParamNames |->
                            IF k = "electionid" THEN ElectionIdProperty
                            ELSE [type |-> "string",
                                  description |-> "The race number to get precinct results for"]],
                      required |-> <<"electionid", "racenumber">>]]

\* The value of the TOOLS array literal.
ToolRegistry ==
    << ListElectionsTool, GetElectionTool, GetLastPublishedTool, GetRacesTool,
       GetElectionResultsTool, GetPrecinctResultsTool >>

(***************************************************************************)
(* makeApiRequest                                                          *)
(***************************************************************************)
BASE_URL == "https://api.danecounty.gov"

\* const url = `${BASE_URL}${endpoint}`
makeApiRequestUrl(endpoint) == BASE_URL \o endpoint

\* response.ok, as the fetch Response defines it: status in 200..299.
ResponseOk(response) == response.status >= 200 /\ response.status <= 299

\* ApiRequestFailed without the status text.
ApiRequestFailedStatusOnly(response) ==
    Error("API request failed: " \o ToString(response.status))

\* The Error thrown for a response that is not ok.
ApiRequestFailed(response) ==
    Error("API request failed: " \o ToString(response.status) \o " "
            \o response.statusText)

\* The catch block of makeApiRequest: an Error is wrapped, anything else is
\* rethrown as it is.
makeApiRequestCatch(error) ==
    IF error.isError
    THEN Error("Failed to fetch from Dane County Elections API: " \o error.message)
    ELSE error

(***************************************************************************)
(* handleToolCall, up to its call of makeApiRequest                        *)
(***************************************************************************)
\* !args[key] for a string-valued or absent property.
Falsy(args, key) == key \notin DOMAIN args \/ args[key] = ""

Throw(error) == [kind |-> "throw", error |-> error]

Request(endpoint) == [kind |-> "makeApiRequest", endpoint |-> endpoint]

\* `${args[key]}` in a template literal: an absent property prints as
\* "undefined".
Interpolate(args, key) == IF key \in DOMAIN args THEN args[key] ELSE "undefined"

\* case "list_elections"
listElections(args) == Request("/api/v1/elections/list")

\* case "get_election"
getElection(args) ==
    IF Falsy(args, "electionid")
    THEN Throw(Error("electionid is required"))
    ELSE Request("/api/v1/elections/election/" \o Interpolate(args, "electionid"))

\* case "get_last_published"
getLastPublished(args) ==
    IF Falsy(args, "electionid")
    THEN Throw(Error("electionid is required"))
    ELSE Request("/api/v1/elections/lastpublished/" \o Interpolate(args, "electionid"))

\* case "get_races"
getRaces(args) ==
    IF Falsy(args, "electionid")
    THEN Throw(Error("electionid is required"))
    ELSE Request("/api/v1/elections/races/" \o Interpolate(args, "electionid"))

\* getElectionResults testing whether racenumber is defined instead of
\* whether it is truthy.
getElectionResultsDefined(args) ==
    IF Falsy(args, "electionid")
    THEN Throw(Error("electionid is required"))
    ELSE IF "racenumber" \in DOMAIN args
         THEN Request("/api/v1/elections/electionresults/"
                        \o Interpolate(args, "electionid") \o "/"
                        \o Interpolate(args, "racenumber"))
         ELSE Request("/api/v1/elections/electionresults/"
                        \o Interpolate(args, "electionid"))

\* case "get_election_results"
getElectionResults(args) ==
    IF Falsy(args, "electionid")
    THEN Throw(Error("electionid is required"))
    ELSE IF ~Falsy(args, "racenumber")
         THEN Request("/api/v1/elections/electionresults/"
                        \o Interpolate(args, "electionid") \o "/"
                        \o Interpolate(args, "racenumber"))
         ELSE Request("/api/v1/elections/electionresults/"
                        \o Interpolate(args, "electionid"))

\* getPrecinctResults rejecting only when both arguments are missing.
getPrecinctResultsBoth(args) ==
    IF Falsy(args, "electionid") /\ Falsy(args, "racenumber")
    THEN Throw(Error("electionid and racenumber are required"))
    ELSE Request("/api/v1/elections/precinctresults/"
                    \o Interpolate(args, "electionid") \o "/"
                    \o Interpolate(args, "racenumber"))

\* getPrecinctResults with the message of the single-parameter cases.
getPrecinctResultsCopied(args) ==
    IF Falsy(args, "electionid") \/ Falsy(args, "racenumber")
    THEN Throw(Error("electionid is required"))
    ELSE Request("/api/v1/elections/precinctresults/"
                    \o Interpolate(args, "electionid") \o "/"
                    \o Interpolate(args, "racenumber"))

\* case "get_precinct_results"
getPrecinctResults(args) ==
    IF Falsy(args, "electionid") \/ Falsy(args, "racenumber")
    THEN Throw(Error("electionid and racenumber are required"))
    ELSE Request("/api/v1/elections/precinctresults/"
                    \o Interpolate(args, "electionid") \o "/"
                    \o Interpolate(args, "racenumber"))

\* unknownTool without the name in its message.
unknownToolUnnamed(name) == Throw(Error("Unknown tool"))

\* default
unknownTool(name) == Throw(Error("Unknown tool: " \o name))

\* The switch of handleToolCall: either the thrown Error or the endpoint it
\* passes to makeApiRequest.
handleToolCall(name, args) ==
    CASE name = "list_elections" -> listElections(args)
      [] name = "get_election" -> getElection(args)
      [] name = "get_last_published" -> getLastPublished(args)
      [] name = "get_races" -> getRaces(args)
      [] name = "get_election_results" -> getElectionResults(args)
      [] name = "get_precinct_results" -> getPrecinctResults(args)
      [] OTHER -> unknownTool(name)

(***************************************************************************)
(* JSON.stringify(value, null, 2)                                          *)
(***************************************************************************)
RECURSIVE JSONstringify(_, _)
RECURSIVE StringifyItems(_, _, _)
RECURSIVE StringifyMembers(_, _, _)

\* The items of a non-empty array from index i on, one per line at indent ind.
StringifyItems(items, i, ind) ==
    ind \o JSONstringify(items[i], ind)
        \o (IF i = Len(items) THEN ""
            ELSE ",\n" \o StringifyItems(items, i + 1, ind))

\* The members of a non-empty object from index i on.
StringifyMembers(members, i, ind) ==
    ind \o "\"" \o members[i][1] \o "\": " \o JSONstringify(members[i][2], ind)
        \o (IF i = Len(members) THEN ""
            ELSE ",\n" \o StringifyMembers(members, i + 1, ind))

\* value printed with the enclosing indentation ind; nested levels add two
\* spaces.
JSONstringify(value, ind) ==
    CASE value.t = "null" -> "null"
      [] value.t = "number" -> ToString(value.v)
      [] value.t = "string" -> "\"" \o value.v \o "\""
      [] value.t = "array" ->
            IF value.items = <<>> THEN "[]"
            ELSE "[\n" \o StringifyItems(value.items, 1, ind \o "  ")
                    \o "\n" \o ind \o "]"
      [] value.t = "object" ->
            IF value.members = <<>> THEN "{}"
            ELSE "{\n" \o StringifyMembers(value.members, 1, ind \o "  ")
                    \o "\n" \o ind \o "}"

(***************************************************************************)
(* The call-tool handler's two return statements                           *)
(***************************************************************************)
\* return { content: [{ type: "text", text: JSON.stringify(result, null, 2) }] }
CallToolResult(result) ==
    [content |-> << [type |-> "text", text |-> JSONstringify(result, "")] >>]

\* const errorMessage = error instanceof Error ? error.message : "Unknown error occurred"
CallToolErrorMessage(error) ==
    IF error.isError THEN error.message ELSE "Unknown error occurred"

\* CallToolError without the error flag.
CallToolErrorUnflagged(error) ==
    [content |-> << [type |-> "text",
                     text |-> "Error: " \o CallToolErrorMessage(error)] >>]

\* The envelope returned from the catch block.
CallToolError(error) ==
    [content |-> << [type |-> "text",
                     text |-> "Error: " \o CallToolErrorMessage(error)] >>,
     isError |-> TRUE]

(***************************************************************************)
(* Outcomes of the two awaited promises                                    *)
(***************************************************************************)
HttpResponses ==
    {[status |-> 200, statusText |-> "OK"],
     [status |-> 404, statusText |-> "Not Found"],
     [status |-> 500, statusText |-> "Internal Server Error"]}

\* fetch(url) resolves with a Response, or rejects with a thrown value.
FetchOutcomes ==
    {[kind |-> "resolve", response |-> r] : r \in HttpResponses}
        \cup {[kind |-> "reject", error |-> Error("fetch failed")],
              [kind |-> "reject", error |-> NonError("socket closed")]}

\* response.json() resolves with the decoded value, or rejects.
JsonOutcomes ==
    {[kind |-> "resolve", value |-> v] : v \in JsonValues}
        \cup {[kind |-> "reject",
               error |-> Error("Unexpected token < in JSON at position 0")]}

(***************************************************************************)
(* State of one call-tool handler                                          *)
(***************************************************************************)
\* pc:        "idle" (no request), "fetch" (suspended at await fetch),
\*            "json" (suspended at await response.json()), "done" (returned)
\* request:   <<request.params>> once received
\* endpoints: the arguments of this call's makeApiRequest invocations
\* fetched:   the URLs of this call's fetch invocations
\* settled:   the outcomes its awaited promises settled with
\* caught:    <<error>> when the handler's catch block ran
\* response:  <<envelope>> once the handler returned
\* stage:     the stages the call went through
IdleCall ==
    [pc |-> "idle", request |-> <<>>, endpoints |-> <<>>, fetched |-> <<>>,
     settled |-> <<>>, caught |-> <<>>, response |-> <<>>, stage |-> <<>>]

\* The handler's catch block ran with `error`: it returns the error envelope.
Failed(call, error) ==
    [call EXCEPT !.pc = "done",
                 !.caught = <<error>>,
                 !.response = <<CallToolError(error)>>,
                 !.stage = Append(@, "Failed")]

\* The handler returned the success envelope for `result`.
Succeeded(call, result) ==
    [call EXCEPT !.pc = "done",
                 !.response = <<CallToolResult(result)>>,
                 !.stage = Append(@, "Succeeded")]

Init ==
    /\ TOOLS = ToolRegistry
    /\ calls = [c \in CallIds |-> IdleCall]
    /\ listed = <<>>
    /\ served = FALSE
    /\ listedAfterCall = FALSE

(***************************************************************************)
(* Request handlers                                                        *)
(***************************************************************************)
\* ListTools with TOOLS.splice(0) for the response: the registry is emptied.
ListToolsSplice ==
    /\ listed' = <<[tools |-> TOOLS]>>
    /\ TOOLS' = <<>>
    /\ listedAfterCall' = served
    /\ UNCHANGED <<calls, served>>

\* ListToolsRequestSchema handler: return { tools: TOOLS }.
ListTools ==
    /\ listed' = <<[tools |-> TOOLS]>>
    /\ listedAfterCall' = served
    /\ UNCHANGED <<TOOLS, calls, served>>

\* The synchronous part of one run of the CallToolRequestSchema handler:
\* destructure the request, default the arguments, run handleToolCall and,
\* unless it throws, makeApiRequest up to `await fetch(url)`.
CallToolStart(call, params) ==
    LET name == params.name
        args == IF "arguments" \in DOMAIN params THEN params.arguments
                ELSE EmptyObject
        r == handleToolCall(name, args)
        received == [call EXCEPT !.request = <<params>>, !.stage = <<"Received">>]
    IN  IF r.kind = "throw"
        THEN Failed(received, r.error)
        ELSE [received EXCEPT
                !.pc = "fetch",
                !.endpoints = Append(@, r.endpoint),
                !.fetched = Append(@, makeApiRequestUrl(r.endpoint)),
                !.stage = @ \o <<"Validated", "Fetching">>]

CallTool(c, params) ==
    /\ calls[c].pc = "idle"
    /\ calls' = [calls EXCEPT ![c] = CallToolStart(calls[c], params)]
    /\ UNCHANGED <<TOOLS, listed, served, listedAfterCall>>

\* FetchResumed with one more attempt after a rejected fetch.
FetchResumedRetry(call, outcome) ==
    LET awaited == [call EXCEPT !.settled = Append(@, outcome)]
    IN  IF outcome.kind = "reject"
        THEN IF Len(call.endpoints) < 2
             THEN [awaited EXCEPT
                    !.endpoints = Append(@, call.endpoints[1]),
                    !.fetched = Append(@, call.fetched[1])]
             ELSE Failed(awaited, makeApiRequestCatch(outcome.error))
        ELSE IF ~ResponseOk(outcome.response)
             THEN Failed(awaited,
                         makeApiRequestCatch(ApiRequestFailed(outcome.response)))
             ELSE [awaited EXCEPT !.pc = "json"]

\* The handler resumed after `await fetch(url)` settled with `outcome`.
FetchResumed(call, outcome) ==
    LET awaited == [call EXCEPT !.settled = Append(@, outcome)]
    IN  IF outcome.kind = "reject"
        THEN Failed(awaited, makeApiRequestCatch(outcome.error))
        ELSE IF ~ResponseOk(outcome.response)
             THEN Failed(awaited,
                         makeApiRequestCatch(ApiRequestFailed(outcome.response)))
             ELSE [awaited EXCEPT !.pc = "json"]

\* FetchSettles answering from a module-level cache that holds the last
\* successful envelope of any call.
FetchSettlesCached(c, outcome) ==
    /\ calls[c].pc = "fetch"
    /\ LET hits == {d \in CallIds : /\ calls[d].pc = "done"
                                    /\ calls[d].caught = <<>>}
           awaited == [calls[c] EXCEPT !.settled = Append(@, outcome)]
       IN  calls' = [calls EXCEPT ![c] =
                IF hits = {}
                THEN FetchResumed(calls[c], outcome)
                ELSE [awaited EXCEPT
                        !.pc = "done",
                        !.response = calls[CHOOSE d \in hits : TRUE].response,
                        !.stage = Append(@, "Succeeded")]]
    /\ UNCHANGED <<TOOLS, listed, served, listedAfterCall>>

FetchSettles(c, outcome) ==
    /\ calls[c].pc = "fetch"
    /\ calls' = [calls EXCEPT ![c] = FetchResumed(calls[c], outcome)]
    /\ UNCHANGED <<TOOLS, listed, served, listedAfterCall>>

\* The handler resumed after `await response.json()` settled with `outcome`.
JsonResumed(call, outcome) ==
    LET awaited == [call EXCEPT !.settled = Append(@, outcome)]
    IN  IF outcome.kind = "reject"
        THEN Failed(awaited, makeApiRequestCatch(outcome.error))
        ELSE Succeeded(awaited, outcome.value)

JsonSettles(c, outcome) ==
    /\ calls[c].pc = "json"
    /\ calls' = [calls EXCEPT ![c] = JsonResumed(calls[c], outcome)]
    /\ UNCHANGED <<TOOLS, listed, served, listedAfterCall>>

\* The handler's promise resolved: the response goes back to the host and the
\* request-scoped state is dropped.
Return(c) ==
    /\ calls[c].pc = "done"
    /\ calls' = [calls EXCEPT ![c] = IdleCall]
    /\ served' = TRUE
    /\ UNCHANGED <<TOOLS, listed, listedAfterCall>>

\* No call-tool handler is between its request and its response.
Quiescent == \A c \in CallIds : calls[c].pc = "idle"

(***************************************************************************)
(* Specifications                                                          *)
(***************************************************************************)
\* A host that waits for each response before it sends the next call-tool
\* request, over the full request set.
Next ==
    \/ ListTools
    \/ \E c \in CallIds, params \in CallToolParams : Quiescent /\ CallTool(c, params)
    \/ \E c \in CallIds, outcome \in FetchOutcomes : FetchSettles(c, outcome)
    \/ \E c \in CallIds, outcome \in JsonOutcomes : JsonSettles(c, outcome)
    \/ \E c \in CallIds : Return(c)

Spec == Init /\ [][Next]_vars

\* A host that issues overlapping call-tool requests.
NextOverlap ==
    \/ ListTools
    \/ \E c \in CallIds, params \in OverlapParams : CallTool(c, params)
    \/ \E c \in CallIds, outcome \in FetchOutcomes : FetchSettles(c, outcome)
    \/ \E c \in CallIds, outcome \in JsonOutcomes : JsonSettles(c, outcome)
    \/ \E c \in CallIds : Return(c)

SpecOverlap == Init /\ [][NextOverlap]_vars

(***************************************************************************)
(* Vocabulary of the properties                                            *)
(***************************************************************************)
StartsWith(s, prefix) ==
    Len(s) >= Len(prefix) /\ SubSeq(s, 1, Len(prefix)) = prefix

Contains(s, part) ==
    \E i \in 1..(Len(s) - Len(part) + 1) : SubSeq(s, i, i + Len(part) - 1) = part

Range(seq) == {seq[i] : i \in DOMAIN seq}

Started(c) == calls[c].pc # "idle"

Done(c) == calls[c].pc = "done"

ParamsOf(c) == calls[c].request[1]

NameOf(c) == ParamsOf(c).name

\* The argument is provided and non-empty.
Given(c, key) ==
    /\ "arguments" \in DOMAIN ParamsOf(c)
    /\ key \in DOMAIN ParamsOf(c).arguments
    /\ ParamsOf(c).arguments[key] # ""

ArgOf(c, key) == ParamsOf(c).arguments[key]

EnvelopeOf(c) == calls[c].response[1]

TextOf(c) == EnvelopeOf(c).content[1].text

\* One text content block, and at most the error flag beside it.
WellFormed(envelope) ==
    /\ DOMAIN envelope \in {{"content"}, {"content", "isError"}}
    /\ Len(envelope.content) = 1
    /\ DOMAIN envelope.content[1] = {"type", "text"}
    /\ envelope.content[1].type = "text"

Flagged(envelope) == "isError" \in DOMAIN envelope /\ envelope.isError = TRUE

\* The handler's catch block ran.
Threw(c) == calls[c].caught # <<>>

CaughtOf(c) == calls[c].caught[1]

LastSettled(c) == calls[c].settled[Len(calls[c].settled)]

\* Required parameters by operation, as the operations table lists them.
TableRequired(name) ==
    CASE name = "list_elections" -> {}
      [] name \in {"get_election", "get_last_published", "get_races",
                   "get_election_results"} -> {"electionid"}
      [] name = "get_precinct_results" -> {"electionid", "racenumber"}

\* Required parameters by operation, as the registry declares them.
DeclaredRequired(name) ==
    UNION {Range(t.inputSchema.required) :
            t \in {u \in Range(TOOLS) :
                    u.name = name /\ "required" \in DOMAIN u.inputSchema}}

\* The path of the path table for call c.
TablePath(c) ==
    CASE NameOf(c) = "list_elections" -> "/api/v1/elections/list"
      [] NameOf(c) = "get_election" ->
            "/api/v1/elections/election/" \o ArgOf(c, "electionid")
      [] NameOf(c) = "get_last_published" ->
            "/api/v1/elections/lastpublished/" \o ArgOf(c, "electionid")
      [] NameOf(c) = "get_races" ->
            "/api/v1/elections/races/" \o ArgOf(c, "electionid")
      [] NameOf(c) = "get_election_results" ->
            "/api/v1/elections/electionresults/" \o ArgOf(c, "electionid")
                \o (IF Given(c, "racenumber") THEN "/" \o ArgOf(c, "racenumber")
                    ELSE "")
      [] NameOf(c) = "get_precinct_results" ->
            "/api/v1/elections/precinctresults/" \o ArgOf(c, "electionid")
                \o "/" \o ArgOf(c, "racenumber")

FailedToFetch == "Failed to fetch from Dane County Elections API: "

\* JSON.stringify(value, null, 2) of the sample values, written out.
PrettyPrinted(value) ==
    CASE value = JsonElections -> "{\n  \"elections\": []\n}"
      [] value = JsonList ->
            "[\n  {\n    \"id\": 1,\n    \"name\": \"Spring\"\n  }\n]"
      [] value = JNull -> "null"

(***************************************************************************)
(* C1                                                                      *)
(***************************************************************************)
\* C1: a call of a registered operation whose required arguments are all
\* present and non-empty has invoked makeApiRequest exactly once, with the
\* path of the path table, in every state after its start (suspended at the
\* fetch, suspended at the decode, or finished whatever the fetch outcome).
C1_OneRequestWithTablePath ==
    \A c \in CallIds :
        (/\ Started(c)
         /\ NameOf(c) \in RegisteredNames
         /\ \A key \in TableRequired(NameOf(c)) : Given(c, key))
        => /\ calls[c].endpoints = <<TablePath(c)>>
           /\ calls[c].fetched = <<"https://api.danecounty.gov" \o TablePath(c)>>

\* A get_precinct_results call that finished after its fetch was rejected.
C1_Witness ==
    \E c \in CallIds :
        /\ Done(c)
        /\ NameOf(c) = "get_precinct_results"
        /\ Given(c, "electionid") /\ Given(c, "racenumber")
        /\ LastSettled(c).kind = "reject"
        /\ calls[c].endpoints = <<"/api/v1/elections/precinctresults/2024-general/5">>

(***************************************************************************)
(* C2                                                                      *)
(***************************************************************************)
\* C2: a call in which an argument that TOOLS declares required for the
\* operation is missing or empty has finished with a validation error
\* without invoking makeApiRequest or fetch.
C2_MissingRequiredNeverFetches ==
    \A c \in CallIds :
        (/\ Started(c)
         /\ \E key \in DeclaredRequired(NameOf(c)) : ~Given(c, key))
        => /\ Done(c)
           /\ calls[c].endpoints = <<>>
           /\ calls[c].fetched = <<>>
           /\ calls[c].settled = <<>>
           /\ Threw(c)
           /\ CaughtOf(c).isError
           /\ Contains(CaughtOf(c).message, "required")
           /\ Flagged(EnvelopeOf(c))

\* get_election_results called with electionid: "" and a race number.
C2_Witness ==
    \E c \in CallIds :
        /\ Done(c)
        /\ NameOf(c) = "get_election_results"
        /\ "arguments" \in DOMAIN ParamsOf(c)
        /\ DOMAIN ParamsOf(c).arguments = {"electionid", "racenumber"}
        /\ ArgOf(c, "electionid") = ""
        /\ ArgOf(c, "racenumber") = "5"
        /\ calls[c].fetched = <<>>

(***************************************************************************)
(* C3                                                                      *)
(***************************************************************************)
\* C3 as stated: every finished call has a well-formed envelope with one
\* text block; on success the text is the pretty-printed JSON and no error
\* flag is set; on any failure the text is "Error: " followed by the
\* message of the failure and isError is true.
C3_AsStated ==
    \A c \in CallIds :
        Done(c) =>
            /\ WellFormed(EnvelopeOf(c))
            /\ IF Threw(c)
               THEN /\ TextOf(c) = "Error: " \o CaughtOf(c).message
                    /\ Flagged(EnvelopeOf(c))
               ELSE /\ TextOf(c) = PrettyPrinted(LastSettled(c).value)
                    /\ "isError" \notin DOMAIN EnvelopeOf(c)

\* C3: every finished call has a well-formed envelope with one text block; on
\* success the text is the pretty-printed JSON and no error flag is set; on a
\* failure isError is true and the text is "Error: " followed by the message
\* of the failure when the failure is an Error instance, and
\* "Error: Unknown error occurred" when it is not.
C3_UniformEnvelope ==
    \A c \in CallIds :
        /\ calls[c].pc \in {"idle", "fetch", "json", "done"}
        /\ Done(c) =>
            /\ calls[c].response # <<>>
            /\ WellFormed(EnvelopeOf(c))
            /\ IF Threw(c)
               THEN /\ TextOf(c) =
                        (IF CaughtOf(c).isError
                         THEN "Error: " \o CaughtOf(c).message
                         ELSE "Error: Unknown error occurred")
                    /\ Flagged(EnvelopeOf(c))
               ELSE /\ TextOf(c) = PrettyPrinted(LastSettled(c).value)
                    /\ "isError" \notin DOMAIN EnvelopeOf(c)

\* A call whose fetch was rejected with a value that is not an Error.
C3_Witness ==
    \E c \in CallIds :
        /\ Done(c)
        /\ Threw(c)
        /\ ~CaughtOf(c).isError
        /\ TextOf(c) = "Error: Unknown error occurred"

(***************************************************************************)
(* C4                                                                      *)
(***************************************************************************)
\* C4: a call of a name that is not one of the six registered names has
\* finished with the error envelope for "Unknown tool: <name>" without
\* invoking makeApiRequest or fetch, whatever its arguments.
C4_UnknownTool ==
    \A c \in CallIds :
        (/\ Started(c)
         /\ NameOf(c) \notin {"list_elections", "get_election", "get_last_published",
                              "get_races", "get_election_results",
                              "get_precinct_results"})
        => /\ Done(c)
           /\ calls[c].endpoints = <<>>
           /\ calls[c].fetched = <<>>
           /\ calls[c].caught = <<Error("Unknown tool: " \o NameOf(c))>>
           /\ TextOf(c) = "Error: Unknown tool: " \o NameOf(c)
           /\ Flagged(EnvelopeOf(c))

\* delete_election called with a valid electionid.
C4_Witness ==
    \E c \in CallIds :
        /\ Done(c)
        /\ NameOf(c) = "delete_election"
        /\ Given(c, "electionid")
        /\ TextOf(c) = "Error: Unknown tool: delete_election"

(***************************************************************************)
(* C5                                                                      *)
(***************************************************************************)
\* C5: a failure that left makeApiRequest is an Error whose message is
\* "Failed to fetch from Dane County Elections API: <detail>", where the
\* detail holds the status and the status text for a response that is not ok
\* and is the underlying message for a rejected fetch or decode; a thrown
\* value that is not an Error instance leaves unchanged.
C5_NormalizedFailure ==
    \A c \in CallIds :
        (Done(c) /\ Threw(c) /\ calls[c].endpoints # <<>>)
        => LET last == LastSettled(c)
               message == CaughtOf(c).message
               detail == SubSeq(message, Len(FailedToFetch) + 1, Len(message))
           IN  IF last.kind = "reject" /\ ~last.error.isError
               THEN CaughtOf(c) = last.error
               ELSE /\ CaughtOf(c).isError
                    /\ StartsWith(message, FailedToFetch)
                    /\ IF last.kind = "reject"
                       THEN detail = last.error.message
                       ELSE /\ Contains(detail, ToString(last.response.status))
                            /\ Contains(detail, last.response.statusText)

\* A call that received HTTP 500.
C5_Witness ==
    \E c \in CallIds :
        /\ Done(c)
        /\ Threw(c)
        /\ calls[c].settled # <<>>
        /\ LastSettled(c).kind = "resolve"
        /\ LastSettled(c).response.status = 500
        /\ CaughtOf(c).message =
            "Failed to fetch from Dane County Elections API: API request failed: 500 Internal Server Error"

(***************************************************************************)
(* C6                                                                      *)
(***************************************************************************)
\* C6: a get_election_results call with a non-empty electionid is not
\* rejected by validation, and the path it requests is
\* /api/v1/elections/electionresults/{electionid} followed by /{racenumber}
\* exactly when racenumber is provided and non-empty.
C6_OptionalRaceSegment ==
    \A c \in CallIds :
        (/\ Started(c)
         /\ NameOf(c) = "get_election_results"
         /\ Given(c, "electionid"))
        => LET base == "/api/v1/elections/electionresults/" \o ArgOf(c, "electionid")
           IN  /\ Len(calls[c].endpoints) = 1
               /\ Given(c, "racenumber") =>
                    calls[c].endpoints[1] = base \o "/" \o ArgOf(c, "racenumber")
               /\ ~Given(c, "racenumber") => calls[c].endpoints[1] = base
               /\ Done(c) /\ Threw(c) => calls[c].settled # <<>>

\* get_election_results called with racenumber: "".
C6_Witness ==
    \E c \in CallIds :
        /\ Started(c)
        /\ NameOf(c) = "get_election_results"
        /\ Given(c, "electionid")
        /\ "racenumber" \in DOMAIN ParamsOf(c).arguments
        /\ ArgOf(c, "racenumber") = ""
        /\ calls[c].endpoints = <<"/api/v1/elections/electionresults/2024-general">>

(***************************************************************************)
(* C7                                                                      *)
(***************************************************************************)
\* The parameter names that occur in a message.
NamedIn(message) == {key \in ParamNames : Contains(message, key)}

\* The required parameters of call c that are missing or empty.
MissingOf(c) == {key \in TableRequired(NameOf(c)) : ~Given(c, key)}

\* The call was rejected by the validation of a registered operation.
FailedValidation(c) ==
    /\ Done(c)
    /\ NameOf(c) \in RegisteredNames
    /\ Threw(c)
    /\ calls[c].endpoints = <<>>

\* C7 as stated: the parameters named by the message of a validation error
\* are the ones that are missing.
C7_AsStated ==
    \A c \in CallIds :
        FailedValidation(c) => NamedIn(CaughtOf(c).message) = MissingOf(c)

\* C7: the message of a validation error names every missing parameter, and
\* names only parameters that the operation requires (for
\* get_precinct_results it names both electionid and racenumber whichever of
\* them is missing).
C7_NamesEveryMissing ==
    \A c \in CallIds :
        FailedValidation(c) =>
            /\ MissingOf(c) # {}
            /\ MissingOf(c) \subseteq NamedIn(CaughtOf(c).message)
            /\ NamedIn(CaughtOf(c).message) \subseteq TableRequired(NameOf(c))
            /\ TextOf(c) = "Error: " \o CaughtOf(c).message

\* get_precinct_results called with an electionid and no racenumber.
C7_Witness ==
    \E c \in CallIds :
        /\ FailedValidation(c)
        /\ NameOf(c) = "get_precinct_results"
        /\ Given(c, "electionid")
        /\ "racenumber" \notin DOMAIN ParamsOf(c).arguments
        /\ "racenumber" \in NamedIn(CaughtOf(c).message)

(***************************************************************************)
(* C8                                                                      *)
(***************************************************************************)
\* Name and required-parameter set of each descriptor, in order.
Descriptors(tools) ==
    [i \in DOMAIN tools |->
        <<tools[i].name,
          IF "required" \in DOMAIN tools[i].inputSchema
          THEN Range(tools[i].inputSchema.required) ELSE {}>>]

SixDescriptors ==
    << <<"list_elections", {}>>,
       <<"get_election", {"electionid"}>>,
       <<"get_last_published", {"electionid"}>>,
       <<"get_races", {"electionid"}>>,
       <<"get_election_results", {"electionid"}>>,
       <<"get_precinct_results", {"electionid", "racenumber"}>> >>

\* C8: the registry always holds the six descriptors, and a "list tools"
\* response, whatever requests came before it, holds exactly these six.
C8_RegistryFixed ==
    /\ Descriptors(TOOLS) = SixDescriptors
    /\ listed # <<>> => /\ DOMAIN listed[1] = {"tools"}
                        /\ Descriptors(listed[1].tools) = SixDescriptors

\* A "list tools" response produced after a call-tool response, while
\* another call is suspended at its fetch.
C8_Witness ==
    /\ listed # <<>>
    /\ listedAfterCall
    /\ \E c \in CallIds : calls[c].pc = "fetch"

(***************************************************************************)
(* C9                                                                      *)
(***************************************************************************)
\* The descriptors of the registry that carry the name.
DescriptorsNamed(name) == {i \in DOMAIN TOOLS : TOOLS[i].name = name}

\* The dispatcher answered call c with the "Unknown tool" failure.
UnknownToolFailure(c) ==
    /\ Done(c)
    /\ Threw(c)
    /\ calls[c].endpoints = <<>>
    /\ StartsWith(CaughtOf(c).message, "Unknown tool")

\* C9: no two descriptors of TOOLS share a name; a call of a name in TOOLS
\* never gets the "Unknown tool" failure; and a call that the dispatcher
\* handles without that failure has a name that matches exactly one
\* descriptor.
C9_RegistryMatchesDispatcher ==
    /\ \A i, j \in DOMAIN TOOLS : TOOLS[i].name = TOOLS[j].name => i = j
    /\ \A c \in CallIds :
        Started(c) =>
            /\ DescriptorsNamed(NameOf(c)) # {} => ~UnknownToolFailure(c)
            /\ ~UnknownToolFailure(c) => Cardinality(DescriptorsNamed(NameOf(c))) = 1

\* A get_races call that passed the dispatcher and is suspended at its fetch.
C9_Witness ==
    \E c \in CallIds :
        /\ calls[c].pc = "fetch"
        /\ NameOf(c) = "get_races"
        /\ Cardinality(DescriptorsNamed("get_races")) = 1

(***************************************************************************)
(* C10                                                                     *)
(***************************************************************************)
ErrorEnvelope(message) ==
    [content |-> << [type |-> "text", text |-> "Error: " \o message] >>,
     isError |-> TRUE]

TextEnvelope(text) == [content |-> << [type |-> "text", text |-> text] >>]

\* The envelope that the operation name, the arguments and the outcomes of
\* the call's own fetch and decode determine.
OwnEnvelope(c) ==
    LET settled == calls[c].settled
    IN  IF NameOf(c) \notin RegisteredNames
        THEN ErrorEnvelope("Unknown tool: " \o NameOf(c))
        ELSE IF MissingOf(c) # {}
        THEN ErrorEnvelope(IF NameOf(c) = "get_precinct_results"
                           THEN "electionid and racenumber are required"
                           ELSE "electionid is required")
        ELSE IF settled[1].kind = "reject"
        THEN ErrorEnvelope(IF settled[1].error.isError
                           THEN FailedToFetch \o settled[1].error.message
                           ELSE "Unknown error occurred")
        ELSE IF settled[1].response.status # 200
        THEN ErrorEnvelope(FailedToFetch \o "API request failed: "
                            \o ToString(settled[1].response.status) \o " "
                            \o settled[1].response.statusText)
        ELSE IF settled[2].kind = "reject"
        THEN ErrorEnvelope(FailedToFetch \o settled[2].error.message)
        ELSE TextEnvelope(PrettyPrinted(settled[2].value))

\* The promises a finished call has awaited: none when its request was
\* rejected before the fetch, else its fetch and, after an ok response, its
\* decode.
AwaitedItsOwn(c) ==
    LET settled == calls[c].settled
    IN  IF NameOf(c) \notin RegisteredNames \/ MissingOf(c) # {}
        THEN settled = <<>>
        ELSE /\ Len(settled) \in {1, 2}
             /\ Len(settled) = 2 <=>
                    (settled[1].kind = "resolve" /\ settled[1].response.status = 200)

\* The stages a call has gone through, by the place it is at.
StagesAt(c) ==
    CASE calls[c].pc = "idle" -> {<<>>}
      [] calls[c].pc \in {"fetch", "json"} ->
            {<<"Received", "Validated", "Fetching">>}
      [] calls[c].pc = "done" ->
            {<<"Received", "Failed">>,
             <<"Received", "Validated", "Fetching", "Failed">>,
             <<"Received", "Validated", "Fetching", "Succeeded">>}

\* Every call is on its own path through the stages, with one makeApiRequest
\* at most, and a finished call holds the envelope its own request and its
\* own outcomes determine.
EachCallOnItsOwn ==
    \A c \in CallIds :
        /\ calls[c].stage \in StagesAt(c)
        /\ Len(calls[c].endpoints) <= 1
        /\ Done(c) => /\ AwaitedItsOwn(c)
                      /\ calls[c].response = <<OwnEnvelope(c)>>

\* A step changes the state of one call at most, keeps the request of a call
\* that has started, and leaves the registry alone.
OneCallPerStep ==
    /\ TOOLS' = TOOLS
    /\ \A c, d \in CallIds :
        (calls'[c] # calls[c] /\ calls'[d] # calls[d]) => c = d
    /\ \A c \in CallIds :
        (Started(c) /\ calls'[c].pc # "idle") =>
            calls'[c].request = calls[c].request

====
